---- MODULE Spec2Model ----
(***************************************************************************)
(* Model of src/main.py: the chunked, resumable PDF extraction pipeline.   *)
(* The state is the file system the program touches (the checkpoint file   *)
(* and the temp_chunk_*.pdf artifacts), the source document's page count   *)
(* and, per process running main(), its locals and its position (pc).      *)
(* Every run also keeps a trace of the calls it made (a history variable). *)
(***************************************************************************)
EXTENDS Integers, Sequences, FiniteSets, TLC

\* ------------------------------------------------------------------ bounds
MaxPages == 5        \* documents have 0..MaxPages pages
MaxFaults == 3       \* at most this many injected errors in one behaviour
ConcPages == 3       \* documents of the concurrent runs have 1..ConcPages pages

Procs == {1, 2}      \* processes that can run main(); process 2 only runs in
                     \* the specifications about concurrent runs
SeqProcs == {1}      \* the single process of the sequential specifications

VARIABLES
  totalPages,          \* doc.page_count of the source document (fixed)
  logFile,             \* content of <base>_run_log.json
  tmpFiles,            \* the temp_chunk_<s>_<e>.pdf files that exist, as <<s, e>>
  faultBudget,         \* injected errors still allowed
  committed,           \* history: chunk_end of the last chunk whose extraction
                       \* and checkpoint write both finished
  credited,            \* history: the chunks <<chunk_start, chunk_end>> whose
                       \* extraction succeeded and was checkpointed, over all
                       \* runs, in the order of their checkpoint writes
  prev,                \* history: how each process's previous run failed
  pc,                  \* position of each process in main()
  last_processed_page, \* main: local (a Python value)
  completed,           \* main: local (a Python value)
  total_pages,         \* main: local
  current_page,        \* main: local
  chunk_start,         \* main: local
  chunk_end,           \* main: local
  success,             \* main: local
  file_id,             \* process_pdf_chunk: local, 0 when nothing was uploaded
  save_args,           \* arguments of the save_run_log call in progress
  exit_code,           \* exit status of the run once pc = "done"
  loaded,              \* history: the checkpoint file content load_run_log saw
  trace                \* history: the calls made by the current run

fsVars == <<totalPages, logFile, tmpFiles>>
locVars == <<last_processed_page, completed, total_pages, current_page,
             chunk_start, chunk_end, success, file_id, save_args,
             exit_code, loaded>>
vars == <<totalPages, logFile, tmpFiles, faultBudget, committed, credited,
          prev, pc,
          last_processed_page, completed, total_pages, current_page,
          chunk_start, chunk_end, success, file_id, save_args,
          exit_code, loaded, trace>>

\* ------------------------------------------------------ Python/JSON values
\* A value is a record [t, n, b]: t its type, n its number (for str and list
\* its length), b its truth value when a bool.
PyVal(t, n, b) == [t |-> t, n |-> n, b |-> b]
PyInt(n) == PyVal("int", n, FALSE)
PyBool(b) == PyVal("bool", IF b THEN 1 ELSE 0, b)
PyNone == PyVal("null", 0, FALSE)
Missing == PyVal("missing", 0, FALSE)    \* key not present in the object

\* bool(v), as `if completed:` evaluates it
Truthy(v) == CASE v.t = "bool" -> v.b
               [] v.t = "int" -> v.n # 0
               [] v.t = "str" -> v.n # 0
               [] v.t = "list" -> v.n # 0
               [] OTHER -> FALSE

\* v > 0 and v + 1 are defined for int and bool only (TypeError otherwise)
IsNumber(v) == v.t \in {"int", "bool"}
Num(v) == v.n

\* ------------------------------------------------------- checkpoint store
\* File contents: absent, an empty file, text that is not JSON, bytes that are
\* not UTF-8, a JSON value that is not an object, or a JSON object.
File(kind, lpp, comp) == [kind |-> kind, lpp |-> lpp, completed |-> comp]
Absent == File("absent", Missing, Missing)
EmptyFile == File("empty", Missing, Missing)

\* json.dump(data, f, indent=2) of save_run_log
json_dump(lpp, comp) == File("obj", PyInt(lpp), PyBool(comp))

Loaded(raised, lpp, comp) == [raised |-> raised, lpp |-> lpp, completed |-> comp]
ZeroCheckpoint == Loaded(FALSE, PyInt(0), PyBool(FALSE))

\* dict.get(key, default)
dict_get(v, default) == IF v.t = "missing" THEN default ELSE v

load_run_log(f) ==
  CASE f.kind = "absent" -> ZeroCheckpoint                    \* line 55
    [] f.kind \in {"empty", "garbage"} -> ZeroCheckpoint      \* JSONDecodeError
    [] f.kind = "undecodable" -> Loaded(TRUE, PyNone, PyNone) \* UnicodeDecodeError
    [] f.kind = "nonobject" -> Loaded(TRUE, PyNone, PyNone)   \* AttributeError
    [] OTHER -> Loaded(FALSE, dict_get(f.lpp, PyInt(0)),
                              dict_get(f.completed, PyBool(FALSE)))

\* ------------------------------------------------------------ the driver
Min(a, b) == IF a <= b THEN a ELSE b

\* `if completed:` (line 152); the variant never takes the early return
ShortCircuit_Never(comp) == FALSE
ShortCircuit(comp) == Truthy(comp)

\* current_page = last_processed_page + 1 (line 167); the variant ignores the
\* checkpoint and starts at page 1
FirstPage_Restart(lpp) == 1
FirstPage(lpp) == lpp + 1

\* while current_page <= total_pages (line 169); the variant stops one page
\* early
LoopCond_OffByOne(cp, total) == cp < total
LoopCond(cp, total) == cp <= total

\* chunk_end = min(current_page + 1, total_pages) (line 171); the variant
\* drops the clamp to total_pages
ChunkEnd_NoClamp(cp, total) == cp + 1
ChunkEnd(cp, total) == Min(cp + 1, total)

\* current_page = chunk_end + 1 (line 185); the variant skips a page
NextPage_Skip(ce) == ce + 2
NextPage(ce) == ce + 1

\* `if success:` (line 182); the variant credits a failed chunk too
Credit_Always(ok) == TRUE
Credit(ok) == ok

\* `if current_page > total_pages:` (line 196); the variant marks the
\* document completed whenever the loop has ended
MarkCompleted_Always(cp, total) == TRUE
MarkCompleted(cp, total) == cp > total

\* the pages extract_pdf_pages copies: range(start_page - 1, min(end_page, count)),
\* as 1-based page numbers (line 71)
WindowPages(start_page, end_page, count) ==
  {n + 1 : n \in (start_page - 1) .. (Min(end_page, count) - 1)}

\* temp_path = f"temp_chunk_{start_page}_{end_page}.pdf" (line 74)
TempPath(start_page, end_page) == <<start_page, end_page>>

\* the finally block: if os.path.exists(p): os.remove(p) (lines 192-193); the
\* variants leave the file behind, resp. remove every temp_chunk file
RemoveTemp_Leak(files, path) == files
RemoveTemp_All(files, path) == {}
RemoveTemp(files, path) == files \ {path}

\* --------------------------------------------------------------- history
Ev(op, a, b) == [op |-> op, a |-> a, b |-> b]
Log(p, e) == trace' = [trace EXCEPT ![p] = Append(@, e)]
Events(p, op) == SelectSeq(trace[p], LAMBDA e : e.op = op)
Has(p, op) == \E i \in 1..Len(trace[p]) : trace[p][i].op = op
B2N(b) == IF b THEN 1 ELSE 0
\* an exception reached the handlers of lines 201-206 (or the finally block on
\* its way there); `line` is the line of main() whose call raised
Raise(p, line) == Log(p, Ev("raise", line, 0))

Fault == faultBudget > 0 /\ faultBudget' = faultBudget - 1

\* the record of credited chunks; it stops growing once it is longer than
\* the number of chunks of the document
NumChunks(total) == (total + 1) \div 2
AddCredit(cr, c) == IF Len(cr) <= NumChunks(totalPages) THEN Append(cr, c) ELSE cr

\* how a run failed an extraction: the chunk [a, b] passed to
\* process_pdf_chunk and the call that raised ("delete" for line 122,
\* "request" for lines 100-116), or NoFailure
NoFailure == Ev("none", 0, 0)
Failure(tr) ==
  IF \E i \in 1..Len(tr) : tr[i].op = "result" /\ tr[i].b = 0
    THEN LET i == CHOOSE j \in 1..Len(tr) : tr[j].op = "result" /\ tr[j].b = 0
             ch == SelectSeq(SubSeq(tr, 1, i), LAMBDA e : e.op = "chunk")
             c == ch[Len(ch)] IN
           Ev(IF tr[i - 1].op = "delete" THEN "delete" ELSE "request", c.a, c.b)
    ELSE NoFailure

\* ------------------------------------------------------------ initial state
NoArgs == <<0, FALSE>>

Init ==
  /\ totalPages \in 0..MaxPages
  /\ logFile = Absent
  /\ tmpFiles = {}
  /\ faultBudget = MaxFaults
  /\ committed = 0
  /\ credited = <<>>
  /\ prev = [p \in Procs |-> NoFailure]
  /\ pc = [p \in Procs |-> "idle"]
  /\ last_processed_page = [p \in Procs |-> PyInt(0)]
  /\ completed = [p \in Procs |-> PyBool(FALSE)]
  /\ total_pages = [p \in Procs |-> 0]
  /\ current_page = [p \in Procs |-> 0]
  /\ chunk_start = [p \in Procs |-> 0]
  /\ chunk_end = [p \in Procs |-> 0]
  /\ success = [p \in Procs |-> FALSE]
  /\ file_id = [p \in Procs |-> 0]
  /\ save_args = [p \in Procs |-> NoArgs]
  /\ exit_code = [p \in Procs |-> 0]
  /\ loaded = [p \in Procs |-> Absent]
  /\ trace = [p \in Procs |-> <<>>]

\* a process is not inside main()
Stopped(p) == pc[p] \in {"idle", "done", "killed"}

\* the locals of a fresh invocation
ResetLocals(p) ==
  /\ last_processed_page' = [last_processed_page EXCEPT ![p] = PyInt(0)]
  /\ completed' = [completed EXCEPT ![p] = PyBool(FALSE)]
  /\ total_pages' = [total_pages EXCEPT ![p] = 0]
  /\ current_page' = [current_page EXCEPT ![p] = 0]
  /\ chunk_start' = [chunk_start EXCEPT ![p] = 0]
  /\ chunk_end' = [chunk_end EXCEPT ![p] = 0]
  /\ success' = [success EXCEPT ![p] = FALSE]
  /\ file_id' = [file_id EXCEPT ![p] = 0]
  /\ save_args' = [save_args EXCEPT ![p] = NoArgs]
  /\ loaded' = [loaded EXCEPT ![p] = Absent]
  /\ trace' = [trace EXCEPT ![p] = <<>>]

Goto(p, l) == pc' = [pc EXCEPT ![p] = l]
\* sys.exit(code), or the return at the end of main()
Exit(p, code) == /\ pc' = [pc EXCEPT ![p] = "done"]
                 /\ exit_code' = [exit_code EXCEPT ![p] = code]

\* ------------------------------------------------------------------ main()
\* lines 130-147: the arguments name an existing .pdf file
MainStart(p) ==
  /\ Stopped(p)
  /\ ResetLocals(p)
  /\ Goto(p, "load")
  /\ exit_code' = [exit_code EXCEPT ![p] = 0]
  /\ prev' = [prev EXCEPT ![p] = Failure(trace[p])]
  /\ UNCHANGED <<fsVars, faultBudget, committed, credited>>

\* lines 138-145: the file does not exist, or is not named *.pdf
MainBadArgs(p) ==
  /\ Stopped(p)
  /\ last_processed_page' = [last_processed_page EXCEPT ![p] = PyInt(0)]
  /\ completed' = [completed EXCEPT ![p] = PyBool(FALSE)]
  /\ total_pages' = [total_pages EXCEPT ![p] = 0]
  /\ current_page' = [current_page EXCEPT ![p] = 0]
  /\ chunk_start' = [chunk_start EXCEPT ![p] = 0]
  /\ chunk_end' = [chunk_end EXCEPT ![p] = 0]
  /\ success' = [success EXCEPT ![p] = FALSE]
  /\ file_id' = [file_id EXCEPT ![p] = 0]
  /\ save_args' = [save_args EXCEPT ![p] = NoArgs]
  /\ loaded' = [loaded EXCEPT ![p] = Absent]
  /\ trace' = [trace EXCEPT ![p] = <<Ev("badargs", 0, 0)>>]
  /\ Exit(p, 1)
  /\ prev' = [prev EXCEPT ![p] = Failure(trace[p])]
  /\ UNCHANGED <<fsVars, faultBudget, committed, credited>>

\* lines 149-155 and the handlers of lines 204-206
LoadRunLog(p) ==
  /\ pc[p] = "load"
  /\ LET r == load_run_log(logFile) IN
       /\ loaded' = [loaded EXCEPT ![p] = logFile]
       /\ IF r.raised
            THEN /\ Exit(p, 1)
                 /\ Raise(p, 150)
                 /\ UNCHANGED <<last_processed_page, completed>>
            ELSE /\ last_processed_page' = [last_processed_page EXCEPT ![p] = r.lpp]
                 /\ completed' = [completed EXCEPT ![p] = r.completed]
                 /\ UNCHANGED trace
                 /\ IF ShortCircuit(r.completed)
                      THEN Exit(p, 0)
                      ELSE Goto(p, "count") /\ UNCHANGED exit_code
  /\ UNCHANGED <<fsVars, faultBudget, committed, credited, prev, total_pages,
                 current_page, chunk_start, chunk_end, success, file_id,
                 save_args>>

\* lines 158-167; `last_processed_page > 0` raises TypeError on a non-number
GetPageCount(p) ==
  /\ pc[p] = "count"
  /\ total_pages' = [total_pages EXCEPT ![p] = totalPages]
  /\ IF IsNumber(last_processed_page[p])
       THEN /\ current_page' = [current_page EXCEPT ![p] =
                                  FirstPage(Num(last_processed_page[p]))]
            /\ Goto(p, "loop")
            /\ UNCHANGED <<exit_code, trace>>
       ELSE /\ Exit(p, 1)
            /\ Raise(p, 161)
            /\ UNCHANGED current_page
  /\ UNCHANGED <<fsVars, faultBudget, committed, credited, prev,
                 last_processed_page, completed, chunk_start, chunk_end,
                 success, file_id, save_args, loaded>>

\* line 158: fitz.open raises; caught at lines 201-206
GetPageCountRaises(p) ==
  /\ pc[p] = "count"
  /\ Fault
  /\ Exit(p, 1)
  /\ Raise(p, 158)
  /\ UNCHANGED <<fsVars, committed, credited, prev, last_processed_page,
                 completed, total_pages, current_page, chunk_start,
                 chunk_end, success, file_id, save_args, loaded>>

\* lines 169-173: the loop test and the chunk boundaries
LoopTest(p) ==
  /\ pc[p] = "loop"
  /\ IF LoopCond(current_page[p], total_pages[p])
       THEN LET cs == current_page[p]
                ce == ChunkEnd(current_page[p], total_pages[p]) IN
              /\ chunk_start' = [chunk_start EXCEPT ![p] = cs]
              /\ chunk_end' = [chunk_end EXCEPT ![p] = ce]
              /\ Log(p, Ev("chunk", cs, ce))
              /\ Goto(p, "window")
       ELSE /\ Goto(p, "after_loop")
            /\ UNCHANGED <<chunk_start, chunk_end, trace>>
  /\ UNCHANGED <<fsVars, faultBudget, committed, credited, prev,
                 last_processed_page, completed, total_pages, current_page,
                 success, file_id, save_args, exit_code, loaded>>

\* line 176, lines 66-79: the windowed artifact is written
ExtractPdfPages(p) ==
  /\ pc[p] = "window"
  /\ tmpFiles' = tmpFiles \cup {TempPath(chunk_start[p], chunk_end[p])}
  /\ Log(p, Ev("window", chunk_start[p], chunk_end[p]))
  /\ Goto(p, "create_file")
  /\ UNCHANGED <<totalPages, logFile, faultBudget, committed, credited, prev, locVars>>

\* line 176 is outside the inner try block: an error raised by
\* extract_pdf_pages goes to the handlers of lines 201-206, which exit with
\* code 1; the variant swallows the error and goes on to the extraction
DocReadFailed_Ignored(p) == Goto(p, "create_file") /\ UNCHANGED exit_code
DocReadFailed(p) == Exit(p, 1)

\* lines 68-75 raise (the document cannot be read, or temp_doc.save fails and
\* may leave a partial file); outside the try block, caught at lines 201-206
ExtractPdfPagesRaises(p) ==
  /\ pc[p] = "window"
  /\ Fault
  /\ \E partial \in BOOLEAN :
       tmpFiles' = IF partial
                     THEN tmpFiles \cup {TempPath(chunk_start[p], chunk_end[p])}
                     ELSE tmpFiles
  /\ DocReadFailed(p)
  /\ Raise(p, 176)
  /\ UNCHANGED <<totalPages, logFile, committed, credited, prev,
                 last_processed_page, completed, total_pages, current_page,
                 chunk_start, chunk_end, success, file_id, save_args,
                 loaded>>

\* ------------------------------------------------------ process_pdf_chunk
\* line 100: the upload; the service's file id is named after the chunk
CreateFile(p) ==
  /\ pc[p] = "create_file"
  /\ TempPath(chunk_start[p], chunk_end[p]) \in tmpFiles
  /\ file_id' = [file_id EXCEPT ![p] = chunk_start[p]]
  /\ Log(p, Ev("extract", chunk_start[p], chunk_end[p]))
  /\ Goto(p, "parse")
  /\ UNCHANGED <<fsVars, faultBudget, committed, credited, prev,
                 last_processed_page, completed, total_pages, current_page,
                 chunk_start, chunk_end, success, save_args, exit_code,
                 loaded>>

\* line 100 raises; lines 126-128
CreateFileRaises(p) ==
  /\ pc[p] = "create_file"
  /\ Fault
  /\ file_id' = [file_id EXCEPT ![p] = 0]
  /\ success' = [success EXCEPT ![p] = FALSE]
  /\ trace' = [trace EXCEPT ![p] =
       @ \o <<Ev("extract", chunk_start[p], chunk_end[p]),
              Ev("result", chunk_start[p], 0)>>]
  /\ Goto(p, "chunk_ret")
  /\ UNCHANGED <<fsVars, committed, credited, prev, last_processed_page,
                 completed, total_pages, current_page, chunk_start,
                 chunk_end, save_args, exit_code, loaded>>

\* lines 90 and 126-128: open(file_path, "rb") finds no file (another run
\* removed it) and raises FileNotFoundError inside the try block
CreateFileMissing(p) ==
  /\ pc[p] = "create_file"
  /\ TempPath(chunk_start[p], chunk_end[p]) \notin tmpFiles
  /\ file_id' = [file_id EXCEPT ![p] = 0]
  /\ success' = [success EXCEPT ![p] = FALSE]
  /\ trace' = [trace EXCEPT ![p] =
       @ \o <<Ev("extract", chunk_start[p], chunk_end[p]),
              Ev("result", chunk_start[p], 0)>>]
  /\ Goto(p, "chunk_ret")
  /\ UNCHANGED <<fsVars, faultBudget, committed, credited, prev,
                 last_processed_page, completed, total_pages, current_page,
                 chunk_start, chunk_end, save_args, exit_code, loaded>>

\* lines 102-119: the structured extraction request
ResponsesParse(p) ==
  /\ pc[p] = "parse"
  /\ Goto(p, "delete")
  /\ UNCHANGED <<fsVars, faultBudget, committed, credited, prev, locVars, trace>>

\* lines 102-116 raise; lines 126-128
ResponsesParseRaises(p) ==
  /\ pc[p] = "parse"
  /\ Fault
  /\ success' = [success EXCEPT ![p] = FALSE]
  /\ Log(p, Ev("result", chunk_start[p], 0))
  /\ Goto(p, "chunk_ret")
  /\ UNCHANGED <<fsVars, committed, credited, prev, last_processed_page,
                 completed, total_pages, current_page, chunk_start,
                 chunk_end, file_id, save_args, exit_code, loaded>>

\* lines 122-124: the uploaded file is deleted, the chunk succeeded
FilesDelete(p) ==
  /\ pc[p] = "delete"
  /\ success' = [success EXCEPT ![p] = TRUE]
  /\ trace' = [trace EXCEPT ![p] =
       @ \o <<Ev("delete", file_id[p], 1), Ev("result", chunk_start[p], 1)>>]
  /\ Goto(p, "chunk_ret")
  /\ UNCHANGED <<fsVars, faultBudget, committed, credited, prev,
                 last_processed_page, completed, total_pages, current_page,
                 chunk_start, chunk_end, file_id, save_args, exit_code,
                 loaded>>

\* what process_pdf_chunk returns when the delete of line 122 raises: the call
\* is inside the try block, so the handler of lines 126-128 returns False; the
\* variant ignores the error of the delete
DeleteRaised_Ignored == TRUE
DeleteRaised == FALSE

\* line 122 raises; lines 126-128
FilesDeleteRaises(p) ==
  /\ pc[p] = "delete"
  /\ Fault
  /\ success' = [success EXCEPT ![p] = DeleteRaised]
  /\ trace' = [trace EXCEPT ![p] =
       @ \o <<Ev("delete", file_id[p], 0),
              Ev("result", chunk_start[p], B2N(DeleteRaised))>>]
  /\ Goto(p, "chunk_ret")
  /\ UNCHANGED <<fsVars, committed, credited, prev, last_processed_page,
                 completed, total_pages, current_page, chunk_start,
                 chunk_end, file_id, save_args, exit_code, loaded>>

\* -------------------------------------------------- main(): the try block
\* lines 180-188: credit the chunk, or break
ChunkResult(p) ==
  /\ pc[p] = "chunk_ret"
  /\ IF Credit(success[p])
       THEN /\ save_args' = [save_args EXCEPT ![p] = <<chunk_end[p], FALSE>>]
            /\ Log(p, Ev("save", chunk_end[p], 0))
            /\ Goto(p, "save_open")
       ELSE /\ Goto(p, "finally_break")
            /\ UNCHANGED <<save_args, trace>>
  /\ UNCHANGED <<fsVars, faultBudget, committed, credited, prev,
                 last_processed_page, completed, total_pages, current_page,
                 chunk_start, chunk_end, success, file_id, exit_code,
                 loaded>>

\* where an exception raised by save_run_log goes: the call of line 184 is
\* inside the try block, the call of line 197 is not; the variant returns
\* normally when the completion write raised
SaveRaised_Swallowed(p) ==
  IF save_args[p][2]
    THEN Exit(p, 0) /\ Raise(p, 197)
    ELSE Goto(p, "finally_exc") /\ Raise(p, 184) /\ UNCHANGED exit_code
SaveRaised(p) ==
  IF save_args[p][2]
    THEN Exit(p, 1) /\ Raise(p, 197)
    ELSE Goto(p, "finally_exc") /\ Raise(p, 184) /\ UNCHANGED exit_code

\* line 63: open(log_path, 'w') truncates the file
SaveOpen(p) ==
  /\ pc[p] = "save_open"
  /\ logFile' = EmptyFile
  /\ Goto(p, "save_write")
  /\ UNCHANGED <<totalPages, tmpFiles, faultBudget, committed, credited, prev, locVars, trace>>

\* line 63 raises: the file is left as it was
SaveOpenRaises(p) ==
  /\ pc[p] = "save_open"
  /\ Fault
  /\ SaveRaised(p)
  /\ UNCHANGED <<fsVars, committed, credited, prev, last_processed_page,
                 completed, total_pages, current_page, chunk_start,
                 chunk_end, success, file_id, save_args, loaded>>

\* line 64 and the close of the with block: the record reaches the file;
\* then line 185, or lines 198-199
SaveWrite(p) ==
  /\ pc[p] = "save_write"
  /\ logFile' = json_dump(save_args[p][1], save_args[p][2])
  /\ Log(p, Ev("saved", save_args[p][1], B2N(save_args[p][2])))
  /\ IF save_args[p][2]
       THEN /\ Exit(p, 0)
            /\ UNCHANGED <<current_page, committed, credited>>
       ELSE /\ current_page' = [current_page EXCEPT ![p] = NextPage(chunk_end[p])]
            /\ committed' = chunk_end[p]
            /\ credited' = AddCredit(credited, <<chunk_start[p], chunk_end[p]>>)
            /\ Goto(p, "finally")
            /\ UNCHANGED exit_code
  /\ UNCHANGED <<totalPages, tmpFiles, faultBudget, prev, last_processed_page,
                 completed, total_pages, chunk_start, chunk_end, success,
                 file_id, save_args, loaded>>

\* line 64 or the flush at close raises: the truncated file stays empty
SaveWriteRaises(p) ==
  /\ pc[p] = "save_write"
  /\ Fault
  /\ SaveRaised(p)
  /\ UNCHANGED <<fsVars, committed, credited, prev, last_processed_page,
                 completed, total_pages, current_page, chunk_start,
                 chunk_end, success, file_id, save_args, loaded>>

\* where the break of line 188 leaves the loop to (line 195); the variant
\* goes round the loop again
BreakTarget_Continue == "loop"
BreakTarget == "after_loop"

\* lines 190-193, then the loop again, the break, or the handler of 204-206
Finally(p) ==
  /\ pc[p] \in {"finally", "finally_break", "finally_exc"}
  /\ tmpFiles' = RemoveTemp(tmpFiles, TempPath(chunk_start[p], chunk_end[p]))
  /\ Log(p, Ev("remove", chunk_start[p], chunk_end[p]))
  /\ CASE pc[p] = "finally" -> Goto(p, "loop") /\ UNCHANGED exit_code
       [] pc[p] = "finally_break" -> Goto(p, BreakTarget) /\ UNCHANGED exit_code
       [] pc[p] = "finally_exc" -> Exit(p, 1)
  /\ UNCHANGED <<totalPages, logFile, faultBudget, committed, credited, prev,
                 last_processed_page, completed, total_pages, current_page,
                 chunk_start, chunk_end, success, file_id, save_args,
                 loaded>>

\* lines 195-199: the loop has ended; mark the document completed or return
AfterLoop(p) ==
  /\ pc[p] = "after_loop"
  /\ IF MarkCompleted(current_page[p], total_pages[p])
       THEN /\ save_args' = [save_args EXCEPT ![p] = <<total_pages[p], TRUE>>]
            /\ trace' = [trace EXCEPT ![p] =
                 @ \o <<Ev("loopend", current_page[p], total_pages[p]),
                        Ev("save", total_pages[p], 1)>>]
            /\ Goto(p, "save_open")
            /\ UNCHANGED exit_code
       ELSE /\ Log(p, Ev("loopend", current_page[p], total_pages[p]))
            /\ Exit(p, 0)
            /\ UNCHANGED save_args
  /\ UNCHANGED <<fsVars, faultBudget, committed, credited, prev,
                 last_processed_page, completed, total_pages, current_page,
                 chunk_start, chunk_end, success, file_id, loaded>>

\* the process is terminated from outside, wherever it is
Terminate(p) ==
  /\ ~Stopped(p)
  /\ Goto(p, "killed")
  /\ UNCHANGED <<fsVars, faultBudget, committed, credited, prev, locVars, trace>>

\* --------------------------------------------------------- specifications
Step(p) ==
  \/ MainStart(p) \/ MainBadArgs(p) \/ LoadRunLog(p) \/ GetPageCount(p)
  \/ LoopTest(p) \/ ExtractPdfPages(p) \/ CreateFile(p) \/ ResponsesParse(p)
  \/ FilesDelete(p) \/ ChunkResult(p) \/ SaveOpen(p) \/ SaveWrite(p)
  \/ Finally(p) \/ AfterLoop(p)

ServiceFault(p) ==
  \/ CreateFileRaises(p) \/ ResponsesParseRaises(p) \/ FilesDeleteRaises(p)

LocalFault(p) ==
  \/ GetPageCountRaises(p) \/ ExtractPdfPagesRaises(p)
  \/ SaveOpenRaises(p) \/ SaveWriteRaises(p)

\* sequential runs of main() on one document, from an absent checkpoint
Next == \E p \in SeqProcs : Step(p) \/ ServiceFault(p) \/ LocalFault(p)
Spec == Init /\ [][Next]_vars

\* the same, where the process can also be terminated from outside
NextCrash == \E p \in SeqProcs : Step(p) \/ ServiceFault(p) \/ Terminate(p)
SpecCrash == Init /\ [][NextCrash]_vars

\* sequential runs where only the extraction service fails: the document and
\* the checkpoint file can always be read and written
NextSvc == \E p \in SeqProcs : Step(p) \/ ServiceFault(p)
SpecSvc == Init /\ [][NextSvc]_vars

\* two processes run main() on the same document at the same time; the steps
\* of the two runs interleave at every call (the exists/remove pair of lines
\* 192-193 is one step)
InitConc ==
  /\ totalPages \in 1..ConcPages
  /\ logFile = Absent
  /\ tmpFiles = {}
  /\ faultBudget = 0
  /\ committed = 0
  /\ credited = <<>>
  /\ prev = [p \in Procs |-> NoFailure]
  /\ pc = [p \in Procs |-> "idle"]
  /\ last_processed_page = [p \in Procs |-> PyInt(0)]
  /\ completed = [p \in Procs |-> PyBool(FALSE)]
  /\ total_pages = [p \in Procs |-> 0]
  /\ current_page = [p \in Procs |-> 0]
  /\ chunk_start = [p \in Procs |-> 0]
  /\ chunk_end = [p \in Procs |-> 0]
  /\ success = [p \in Procs |-> FALSE]
  /\ file_id = [p \in Procs |-> 0]
  /\ save_args = [p \in Procs |-> NoArgs]
  /\ exit_code = [p \in Procs |-> 0]
  /\ loaded = [p \in Procs |-> Absent]
  /\ trace = [p \in Procs |-> <<>>]
NextConc == \E p \in Procs : Step(p) \/ CreateFileMissing(p)
SpecConc == InitConc /\ [][NextConc]_vars

\* the same, where main() is invoked again whenever it has ended and every
\* call of a run returns or raises: a run in progress takes its next step.
\* The service fails finitely often (faultBudget).
Invoke == \E p \in SeqProcs : MainStart(p)
RunStep(p) ==
  \/ LoadRunLog(p) \/ GetPageCount(p) \/ LoopTest(p) \/ ExtractPdfPages(p)
  \/ CreateFile(p) \/ ResponsesParse(p) \/ FilesDelete(p) \/ ChunkResult(p)
  \/ SaveOpen(p) \/ SaveWrite(p) \/ Finally(p) \/ AfterLoop(p)
Progress == \E p \in SeqProcs : RunStep(p)
SpecLive == Init /\ [][NextSvc]_vars /\ WF_vars(Invoke) /\ WF_vars(Progress)

\* runs of main() that find an arbitrary, possibly corrupt, checkpoint file
LppValues ==
  {Missing, PyNone, PyBool(TRUE), PyBool(FALSE), PyVal("str", 0, FALSE),
   PyVal("str", 1, FALSE), PyVal("list", 0, FALSE), PyVal("list", 1, FALSE)}
  \cup {PyInt(n) : n \in 0..(MaxPages + 1)}
CompletedValues ==
  {Missing, PyNone, PyBool(TRUE), PyBool(FALSE), PyInt(0), PyInt(1),
   PyVal("str", 0, FALSE), PyVal("str", 1, FALSE)}
FileContents ==
  {Absent, EmptyFile, File("garbage", Missing, Missing),
   File("undecodable", Missing, Missing), File("nonobject", Missing, Missing)}
  \cup {File("obj", l, c) : l \in LppValues, c \in CompletedValues}

InitCorrupt ==
  /\ totalPages \in 0..MaxPages
  /\ logFile \in FileContents
  /\ tmpFiles = {}
  /\ faultBudget = MaxFaults
  /\ committed = 0
  /\ credited = <<>>
  /\ prev = [p \in Procs |-> NoFailure]
  /\ pc = [p \in Procs |-> "idle"]
  /\ last_processed_page = [p \in Procs |-> PyInt(0)]
  /\ completed = [p \in Procs |-> PyBool(FALSE)]
  /\ total_pages = [p \in Procs |-> 0]
  /\ current_page = [p \in Procs |-> 0]
  /\ chunk_start = [p \in Procs |-> 0]
  /\ chunk_end = [p \in Procs |-> 0]
  /\ success = [p \in Procs |-> FALSE]
  /\ file_id = [p \in Procs |-> 0]
  /\ save_args = [p \in Procs |-> NoArgs]
  /\ exit_code = [p \in Procs |-> 0]
  /\ loaded = [p \in Procs |-> Absent]
  /\ trace = [p \in Procs |-> <<>>]
SpecCorrupt == InitCorrupt /\ [][Next]_vars

\* ------------------------------------------------------- derived notions
\* the checkpoint as the next run would read it
Checkpoint == load_run_log(logFile)
CheckpointIs(lpp, comp) == Checkpoint = Loaded(FALSE, PyInt(lpp), PyBool(comp))

\* the chunks [chunk_start, chunk_end] generated by the current run, in order
Chunks(p) == Events(p, "chunk")

\* some extraction call of the run failed
HasFail(p) == \E i \in 1..Len(trace[p]) :
                trace[p][i].op = "result" /\ trace[p][i].b = 0

\* the run issued, resp. finished, the write of completed = true
CalledSaveCompleted(p) == \E i \in 1..Len(trace[p]) :
                            trace[p][i].op = "save" /\ trace[p][i].b = 1
SavedCompleted(p) == \E i \in 1..Len(trace[p]) :
                       trace[p][i].op = "saved" /\ trace[p][i].b = 1

\* the run has ended in Completed: it returned normally after its loop ended
\* and none of its extraction calls failed
RunCompleted(p) ==
  pc[p] = "done" /\ exit_code[p] = 0 /\ Has(p, "loopend") /\ ~HasFail(p)

\* the run loaded the checkpoint (lpp, completed = false)
StartedFrom(p, lpp) ==
  /\ pc[p] \notin {"idle", "load"}
  /\ IsNumber(last_processed_page[p]) /\ Num(last_processed_page[p]) = lpp
  /\ ~Truthy(completed[p])

\* ------------------------------------------------------------------ claims

\* C1: a run that starts from the checkpoint (0, false) generates chunks that
\* are consecutive from page 1, in increasing order, each of one or two pages;
\* when every extraction of the run succeeded and the run completed, the
\* chunks end at totalPages and every page 1..totalPages lies in exactly one
\* chunk (no chunk at all when totalPages = 0).
C1_ChunksPartition ==
  \A p \in SeqProcs :
    StartedFrom(p, 0) =>
      LET c == Chunks(p) IN
        /\ \A i \in 1..Len(c) : c[i].a <= c[i].b /\ c[i].b <= c[i].a + 1
        /\ Len(c) > 0 => c[1].a = 1
        /\ \A i \in 1..(Len(c) - 1) : c[i + 1].a = c[i].b + 1
        /\ RunCompleted(p) =>
             /\ \A i \in 1..Len(c) : c[i].b <= totalPages
             /\ \A n \in 1..totalPages :
                  Cardinality({i \in 1..Len(c) :
                     n \in WindowPages(c[i].a, c[i].b, totalPages)}) = 1
             /\ totalPages = 0 => Len(c) = 0

\* C1 witness: the 5-page document, no checkpoint: chunks [1,2], [3,4], [5,5]
\* and the checkpoint {5, true}
C1_Witness ==
  /\ totalPages = 5 /\ StartedFrom(1, 0) /\ RunCompleted(1)
  /\ Chunks(1) = <<Ev("chunk", 1, 2), Ev("chunk", 3, 4), Ev("chunk", 5, 5)>>
  /\ CheckpointIs(5, TRUE)

\* C2: when a run has ended and its extraction call for the chunk starting at
\* page k+1 failed, the checkpoint load_run_log reads is (k, false).
C2_CheckpointAfterFailure ==
  \A p \in SeqProcs :
    \A i \in 1..Len(trace[p]) :
      (pc[p] = "done" /\ trace[p][i].op = "result" /\ trace[p][i].b = 0)
        => CheckpointIs(trace[p][i].a - 1, FALSE)

\* C2 witness: the chunk [3,4] failed after [1,2] was credited; checkpoint (2, false)
C2_Witness ==
  /\ pc[1] = "done" /\ totalPages = 4 /\ StartedFrom(1, 0)
  /\ \E i \in 1..Len(trace[1]) : trace[1][i] = Ev("result", 3, 0)
  /\ CheckpointIs(2, FALSE)

\* C3: a run that loaded the checkpoint (k, false) with 0 < k < totalPages
\* generates its first chunk at page k+1, windows and extracts no page <= k,
\* and, when every remaining chunk succeeds, leaves the checkpoint
\* {totalPages, true}.
C3_Resumes ==
  \A p \in SeqProcs : \A k \in 1..(totalPages - 1) :
    StartedFrom(p, k) =>
      /\ Len(Chunks(p)) > 0 => Chunks(p)[1].a = k + 1
      /\ \A i \in 1..Len(trace[p]) :
           trace[p][i].op \in {"chunk", "window", "extract"} =>
             /\ trace[p][i].a > k
             /\ WindowPages(trace[p][i].a, trace[p][i].b, totalPages)
                  \cap (1..k) = {}
      /\ RunCompleted(p) => CheckpointIs(totalPages, TRUE)

\* C3 witness: 4 pages, checkpoint {2, false}: only [3,4] is processed, then {4, true}
C3_Witness ==
  /\ totalPages = 4 /\ StartedFrom(1, 2) /\ RunCompleted(1)
  /\ Chunks(1) = <<Ev("chunk", 3, 4)>>
  /\ Events(1, "extract") = <<Ev("extract", 3, 4)>>
  /\ CheckpointIs(4, TRUE)

\* C4: a run that finds completed = true in the checkpoint makes no call at all
\* (no windowing, no extraction, no checkpoint write) and returns; the step in
\* which it reads the checkpoint leaves the checkpoint file and the temporary
\* files as they were. This holds for every run, however many there are.
C4_ShortCircuitStep ==
  \A p \in SeqProcs :
    (pc[p] = "load" /\ ~Checkpoint.raised /\ Truthy(Checkpoint.completed))
      => /\ logFile' = logFile
         /\ tmpFiles' = tmpFiles
         /\ trace'[p] = <<>>
         /\ pc'[p] = "done" /\ exit_code'[p] = 0
C4_CompletedIdempotent ==
  /\ [](\A p \in SeqProcs :
          Truthy(completed[p]) =>
            /\ trace[p] = <<>>
            /\ pc[p] = "done" /\ exit_code[p] = 0
            /\ logFile = loaded[p])
  /\ [][C4_ShortCircuitStep]_vars

\* C4 witness: a run on a completed 4-page document has returned
C4_Witness ==
  /\ totalPages = 4 /\ pc[1] = "done" /\ Truthy(completed[1])
  /\ loaded[1] = json_dump(4, TRUE) /\ logFile = json_dump(4, TRUE)
  /\ trace[1] = <<>>

\* C5: the checkpoint read from the file always has
\* 0 <= lastProcessedPage <= totalPages, and completed only with
\* lastProcessedPage = totalPages.
C5_CheckpointInvariant ==
  /\ ~Checkpoint.raised
  /\ IsNumber(Checkpoint.lpp)
  /\ 0 <= Num(Checkpoint.lpp) /\ Num(Checkpoint.lpp) <= totalPages
  /\ Truthy(Checkpoint.completed) => Num(Checkpoint.lpp) = totalPages

\* C5 witness: a halted run left the checkpoint {4, false} of a 5-page document
C5_Witness ==
  /\ totalPages = 5 /\ logFile = json_dump(4, FALSE)
  /\ pc[1] = "done" /\ HasFail(1)

\* C6: the write of completed = true is issued exactly when the loop has ended
\* with current_page > total_pages, it writes lastProcessedPage = totalPages,
\* a run with a failed extraction never issues it, and a run that starts from
\* lastProcessedPage >= totalPages issues it without any extraction call.
C6_CompletionTransition ==
  \A p \in SeqProcs :
    /\ \A i \in 1..Len(trace[p]) :
         (trace[p][i].op \in {"save", "saved"} /\ trace[p][i].b = 1) =>
           /\ trace[p][i].a = totalPages
           /\ current_page[p] > total_pages[p]
           /\ i > 1 /\ \E j \in 1..(i - 1) :
                /\ trace[p][j].op = "loopend"
                /\ trace[p][j].a > trace[p][j].b
    /\ \A j \in 1..Len(trace[p]) :
         trace[p][j].op = "loopend" =>
           (CalledSaveCompleted(p) <=> trace[p][j].a > trace[p][j].b)
    /\ HasFail(p) => ~CalledSaveCompleted(p) /\ ~SavedCompleted(p)
    /\ (pc[p] = "done" /\ SavedCompleted(p)) => CheckpointIs(totalPages, TRUE)
    /\ (pc[p] = "done" /\ exit_code[p] = 0 /\ ~Truthy(completed[p])
          /\ trace[p] # <<>>) => (SavedCompleted(p) <=> ~HasFail(p))
    /\ (pc[p] \notin {"idle", "load", "count"}
          /\ IsNumber(last_processed_page[p]) /\ ~Truthy(completed[p])
          /\ Num(last_processed_page[p]) >= total_pages[p]) =>
           /\ ~Has(p, "chunk") /\ ~Has(p, "window") /\ ~Has(p, "extract")
           /\ Has(p, "loopend") => CalledSaveCompleted(p)
           /\ (pc[p] = "done" /\ exit_code[p] = 0) =>
                 CheckpointIs(totalPages, TRUE)

\* C6 witness: a run found {4, false} for a 4-page document and wrote
\* {4, true} without extracting anything
C6_Witness ==
  /\ totalPages = 4 /\ StartedFrom(1, 4) /\ pc[1] = "done"
  /\ SavedCompleted(1) /\ ~Has(1, "extract")
  /\ CheckpointIs(4, TRUE)

\* the process is between the creation of a windowed artifact and the end of
\* the finally block of that chunk (lines 176-193)
InChunkStep(p) ==
  \/ pc[p] \in {"create_file", "parse", "delete", "chunk_ret",
                "finally", "finally_break", "finally_exc"}
  \/ pc[p] \in {"save_open", "save_write"} /\ ~save_args[p][2]

\* C7: once the chunk-processing step has returned, no windowed artifact the
\* run created exists, whether the extraction succeeded, failed, or the
\* checkpoint write raised.
C7_CleanupGuarantee ==
  \A p \in SeqProcs :
    ~InChunkStep(p) =>
      \A i \in 1..Len(trace[p]) :
        trace[p][i].op = "window" =>
          TempPath(trace[p][i].a, trace[p][i].b) \notin tmpFiles

\* C7 witness: the checkpoint write of a chunk raised; the artifact is gone
C7_Witness ==
  /\ pc[1] = "done" /\ exit_code[1] = 1 /\ tmpFiles = {}
  /\ Len(trace[1]) >= 3
  /\ trace[1][Len(trace[1])].op = "remove"
  /\ trace[1][Len(trace[1]) - 1] = Ev("raise", 184, 0)
  /\ \E i \in 1..Len(trace[1]) :
       trace[1][i] = Ev("window", chunk_start[1], chunk_end[1])

\* index of the last extraction call in the trace of the run (0 if none)
LastExtract(p) ==
  LET I == {i \in 1..Len(trace[p]) : trace[p][i].op = "extract"} IN
    IF I = {} THEN 0 ELSE CHOOSE i \in I : \A j \in I : j <= i

\* C8: when process_pdf_chunk returns and its upload had succeeded, a delete
\* call for the uploaded file id was issued during that call.
C8_AlwaysDeletesUpload ==
  \A p \in SeqProcs :
    (pc[p] = "chunk_ret" /\ file_id[p] # 0) =>
      \E i \in (LastExtract(p) + 1)..Len(trace[p]) :
        trace[p][i].op = "delete" /\ trace[p][i].a = file_id[p]

\* a checkpoint file that is not a record {int, bool} written by save_run_log:
\* missing, not JSON, JSON but not an object, or an object with a missing or
\* wrongly typed field
Corrupt(f) ==
  \/ f.kind # "obj"
  \/ f.lpp.t # "int"
  \/ f.completed.t # "bool"

\* C9: a run that found a missing or corrupt checkpoint file got the zero
\* checkpoint (page 0, not completed) from load_run_log, without an error,
\* and went on as a never-started run.
C9_CorruptionSwallowed ==
  \A p \in SeqProcs :
    (pc[p] \notin {"idle", "load"} /\ Corrupt(loaded[p])) =>
      /\ ~load_run_log(loaded[p]).raised
      /\ IsNumber(last_processed_page[p]) /\ Num(last_processed_page[p]) = 0
      /\ ~Truthy(completed[p])

\* C10: after the process was terminated from outside, the checkpoint the
\* next run reads has the lastProcessedPage of the last chunk whose
\* extraction and checkpoint write both finished.
C10_KillKeepsCheckpoint ==
  \A p \in SeqProcs :
    pc[p] = "killed" =>
      /\ ~Checkpoint.raised
      /\ IsNumber(Checkpoint.lpp)
      /\ Num(Checkpoint.lpp) = committed

\* an exception reached the handlers of main(), resp. the arguments were refused
HasRaise(p) == Has(p, "raise")
BadArgs(p) == Has(p, "badargs")

\* the run was halted by a failed extraction (the break of line 188)
RunHalted(p) == HasFail(p) /\ Has(p, "loopend")

\* C11: a run ends with exit code 1 exactly when the file was missing or not
\* a PDF or an error was raised during the run (checkpoint read, document read,
\* checkpoint write), and with exit code 0 exactly on completion, on the
\* already-completed short-circuit and on a halt by an extraction failure;
\* a raised error always ends in the handlers: the run stops with a code.
C11_ExitOutcome ==
  \A p \in SeqProcs :
    /\ HasRaise(p) => pc[p] \in {"finally_exc", "done"}
    /\ pc[p] = "done" =>
         /\ exit_code[p] \in {0, 1}
         /\ exit_code[p] = 1 <=> (BadArgs(p) \/ HasRaise(p))
         /\ exit_code[p] = 0 <=>
              \/ SavedCompleted(p)
              \/ ShortCircuit(completed[p])
              \/ RunHalted(p)
         /\ (RunHalted(p) \/ SavedCompleted(p)) => ~HasRaise(p)

\* C11 witness: the document could not be read while windowing the chunk
\* [3,3] of a 3-page document; the run ended with exit code 1
C11_Witness ==
  /\ totalPages = 3 /\ pc[1] = "done" /\ exit_code[1] = 1
  /\ Len(trace[1]) > 1
  /\ trace[1][Len(trace[1])] = Ev("raise", 176, 0)
  /\ trace[1][Len(trace[1]) - 1] = Ev("chunk", 3, 3)

\* the operations a run performs for a chunk
ChunkOps == {"chunk", "window", "extract", "delete", "result", "save", "saved"}

\* C12: after process_pdf_chunk returned failure, the run windows nothing,
\* extracts nothing (neither the failed chunk again nor a later one) and
\* writes no checkpoint: only the artifact's removal and the end of the loop
\* follow, and the run returns.
C12_HaltOnFirstFailure ==
  \A p \in SeqProcs :
    \A i \in 1..Len(trace[p]) :
      (trace[p][i].op = "result" /\ trace[p][i].b = 0) =>
        /\ \A j \in (i + 1)..Len(trace[p]) : trace[p][j].op \notin ChunkOps
        /\ Len(trace[p]) <= i + 2
        /\ pc[p] \in {"chunk_ret", "finally_break", "after_loop", "done"}
        /\ Len(Events(p, "extract")) = Len(Events(p, "result"))

\* C12 witness: the first chunk of a 5-page document failed; the run removed
\* the artifact and returned without touching pages 3..5
C12_Witness ==
  /\ totalPages = 5 /\ pc[1] = "done" /\ exit_code[1] = 0
  /\ Events(1, "extract") = <<Ev("extract", 1, 2)>>
  /\ Events(1, "result") = <<Ev("result", 1, 0)>>
  /\ ~Has(1, "save")
  /\ trace[1][Len(trace[1])] = Ev("loopend", 1, 5)

\* positions of the windowing calls in the trace of the run
Windows(p) == {i \in 1..Len(trace[p]) : trace[p][i].op = "window"}

\* the windowed artifacts of the run that still exist
LiveArtifacts(p) ==
  {TempPath(trace[p][i].a, trace[p][i].b) : i \in Windows(p)} \cap tmpFiles

\* C13: between the windowing of a chunk and the windowing of the next one the
\* run has, in this order, got the successful result of the first chunk's
\* extraction, finished its checkpoint write (lastProcessedPage = chunk_end)
\* and removed its artifact; at most one windowed artifact exists at any time.
C13_StrictSequencing ==
  \A p \in SeqProcs :
    /\ \A i \in Windows(p) : \A j \in Windows(p) :
         (i < j /\ ~\E k \in Windows(p) : i < k /\ k < j) =>
           \E r \in (i + 1)..(j - 1) :
           \E s \in (r + 1)..(j - 1) :
           \E m \in (s + 1)..(j - 1) :
             /\ trace[p][r] = Ev("result", trace[p][i].a, 1)
             /\ trace[p][s] = Ev("saved", trace[p][i].b, 0)
             /\ trace[p][m] = Ev("remove", trace[p][i].a, trace[p][i].b)
             /\ trace[p][j].a = trace[p][i].b + 1
    /\ Cardinality(LiveArtifacts(p)) <= 1
    /\ Cardinality(tmpFiles) <= 1

\* C13 witness: the second chunk of a 4-page document has just been windowed,
\* after the first was extracted, checkpointed and its artifact removed
C13_Witness ==
  /\ totalPages = 4 /\ pc[1] = "create_file"
  /\ trace[1] = <<Ev("chunk", 1, 2), Ev("window", 1, 2), Ev("extract", 1, 2),
                  Ev("delete", 1, 1), Ev("result", 1, 1), Ev("save", 2, 0),
                  Ev("saved", 2, 0), Ev("remove", 1, 2), Ev("chunk", 3, 4),
                  Ev("window", 3, 4)>>
  /\ tmpFiles = {TempPath(3, 4)}
  /\ logFile = json_dump(2, FALSE)

\* the value of the last checkpoint write the run finished, if any
LastSaved(p) ==
  LET sv == Events(p, "saved") IN sv[Len(sv)]

\* C14: when get_pdf_page_count (line 158) or extract_pdf_pages (line 176)
\* raises, the run ends there with exit code 1: the chunk being windowed is
\* not extracted, nothing follows the error, and the checkpoint is the one
\* the run last saved (the one it loaded, if it saved none), not completed.
C14_DocumentReadFailure ==
  \A p \in SeqProcs :
    \A i \in 1..Len(trace[p]) :
      (trace[p][i].op = "raise" /\ trace[p][i].a \in {158, 176}) =>
        /\ i = Len(trace[p])
        /\ pc[p] = "done" /\ exit_code[p] = 1
        /\ trace[p][i].a = 158 => i = 1
        /\ trace[p][i].a = 176 =>
             /\ i > 1 /\ trace[p][i - 1].op = "chunk"
             /\ \A j \in 1..Len(trace[p]) :
                  trace[p][j].op = "extract" =>
                    trace[p][j].a < trace[p][i - 1].a
        /\ ~Truthy(Checkpoint.completed)
        /\ IF Has(p, "saved")
             THEN CheckpointIs(LastSaved(p).a, FALSE)
             ELSE logFile = loaded[p]

\* C14 witness: the document could not be read while windowing [3,4], after
\* [1,2] was checkpointed; the checkpoint is still {2, false}
C14_Witness ==
  /\ totalPages = 4 /\ pc[1] = "done" /\ exit_code[1] = 1
  /\ Len(trace[1]) > 1
  /\ trace[1][Len(trace[1])] = Ev("raise", 176, 0)
  /\ trace[1][Len(trace[1]) - 1] = Ev("chunk", 3, 4)
  /\ Events(1, "extract") = <<Ev("extract", 1, 2)>>
  /\ CheckpointIs(2, FALSE)

\* C15: every chunk a run generates satisfies
\* 1 <= chunk_start <= chunk_end <= totalPages and has exactly two pages,
\* unless it ends at the last page of the document, where it has one or two.
C15_ChunkShape ==
  \A p \in SeqProcs :
    \A i \in 1..Len(trace[p]) :
      trace[p][i].op = "chunk" =>
        LET cs == trace[p][i].a
            ce == trace[p][i].b
            n == Cardinality(WindowPages(cs, ce, totalPages)) IN
          /\ 1 <= cs /\ cs <= ce /\ ce <= totalPages
          /\ n = ce - cs + 1
          /\ n = 2 \/ (ce = totalPages /\ n = 1)

\* C15 witness: the last chunk of a 5-page document is the single page [5,5],
\* generated after the two-page chunks [1,2] and [3,4]
C15_Witness ==
  /\ totalPages = 5 /\ pc[1] = "window"
  /\ chunk_start[1] = 5 /\ chunk_end[1] = 5
  /\ Chunks(1) = <<Ev("chunk", 1, 2), Ev("chunk", 3, 4), Ev("chunk", 5, 5)>>

\* no process is inside save_run_log, between the truncation of line 63 and
\* the write of line 64
Quiescent == \A p \in SeqProcs : pc[p] # "save_write"

\* C17: over sequential runs on a fixed document where only extraction calls
\* fail and nothing else touches the checkpoint file, the persisted
\* lastProcessedPage (as read outside a save_run_log call) never decreases
\* and completed never goes from true back to false.
C17_MonotonicProgress ==
  /\ [](Quiescent => /\ ~Checkpoint.raised
                     /\ IsNumber(Checkpoint.lpp)
                     /\ Num(Checkpoint.lpp) = committed)
  /\ [][committed' >= committed]_vars
  /\ [][Truthy(Checkpoint.completed) =>
          Truthy(load_run_log(logFile').completed)]_vars

\* C17 witness: a run failed on the chunk [3,4] with the checkpoint at 2; the
\* next run has moved the checkpoint from 2 to 4
C17_Witness ==
  /\ prev[1] = Ev("request", 3, 4)
  /\ credited = <<<<1, 2>>, <<3, 4>>>>
  /\ Quiescent /\ CheckpointIs(4, FALSE)

\* C18: a chunk is credited only after its upload, its extraction request and
\* the delete of its upload all returned; when the delete raises,
\* process_pdf_chunk returns failure, the run makes no further checkpoint write
\* and generates no further chunk, it ends halted with the checkpoint below
\* the chunk, and the first chunk the next run extracts is the same chunk.
C18_DeleteFailureNotCredited ==
  \A p \in SeqProcs :
    /\ \A i \in 1..Len(trace[p]) :
         (trace[p][i].op = "save" /\ trace[p][i].b = 0) =>
           /\ i > 3
           /\ trace[p][i - 1].op = "result" /\ trace[p][i - 1].b = 1
           /\ trace[p][i - 2].op = "delete" /\ trace[p][i - 2].b = 1
           /\ trace[p][i - 3] = Ev("extract", trace[p][i - 1].a, trace[p][i].a)
    /\ \A i \in 1..Len(trace[p]) :
         (trace[p][i].op = "delete" /\ trace[p][i].b = 0) =>
           /\ i < Len(trace[p])
           /\ trace[p][i + 1].op = "result" /\ trace[p][i + 1].b = 0
           /\ trace[p][i + 1].a = chunk_start[p]
           /\ \A j \in (i + 1)..Len(trace[p]) :
                trace[p][j].op \notin {"chunk", "extract", "save", "saved"}
           /\ ~Checkpoint.raised /\ IsNumber(Checkpoint.lpp)
           /\ Num(Checkpoint.lpp) < chunk_start[p]
           /\ ~Truthy(Checkpoint.completed)
           /\ pc[p] \in {"chunk_ret", "finally_break", "after_loop", "done"}
           /\ pc[p] = "done" => (exit_code[p] = 0 /\ RunHalted(p))
    /\ prev[p].op = "delete" =>
         /\ Len(Chunks(p)) > 0 => Chunks(p)[1] = Ev("chunk", prev[p].a, prev[p].b)
         /\ Len(Events(p, "extract")) > 0 =>
              Events(p, "extract")[1] = Ev("extract", prev[p].a, prev[p].b)

\* C18 witness: the delete raised on the chunk [3,4] with the checkpoint at 2;
\* the next run has passed the chunk [3,4] to the service again
C18_Witness ==
  /\ prev[1] = Ev("delete", 3, 4)
  /\ Events(1, "extract") = <<Ev("extract", 3, 4)>>
  /\ pc[1] = "parse"
  /\ CheckpointIs(2, FALSE)

\* the chunks of a run on a document of `total` pages that starts from an
\* absent checkpoint: [1,2], [3,4], ..., the last one clamped to `total`
Partition(total) ==
  [k \in 1..NumChunks(total) |-> <<2 * k - 1, Min(2 * k, total)>>]

\* C19: over halted and resumed runs from an absent checkpoint, the chunks
\* credited so far are the first chunks of the fresh-start partition of
\* [1, totalPages], each once and in increasing order, the checkpoint is at
\* the end of the last of them, and they are the whole partition once the
\* checkpoint says completed; the run after a failed chunk starts with a
\* chunk of the same boundaries.
C19_ExactlyOnceCredit ==
  /\ Len(credited) <= NumChunks(totalPages)
  /\ \A k \in 1..Len(credited) : credited[k] = Partition(totalPages)[k]
  /\ Quiescent =>
       Num(Checkpoint.lpp) = IF credited = <<>> THEN 0
                             ELSE credited[Len(credited)][2]
  /\ Truthy(Checkpoint.completed) => credited = Partition(totalPages)
  /\ \A p \in SeqProcs :
       /\ RunCompleted(p) => credited = Partition(totalPages)
       /\ prev[p] # NoFailure =>
            \E k \in 1..NumChunks(totalPages) :
              <<prev[p].a, prev[p].b>> = Partition(totalPages)[k]
       /\ (prev[p] # NoFailure /\ ~BadArgs(p)
             /\ pc[p] \notin {"load", "count", "loop"}) =>
            /\ Len(Chunks(p)) > 0
            /\ Chunks(p)[1] = Ev("chunk", prev[p].a, prev[p].b)

\* C19 witness: a 5-page document completed by a run that resumed after the
\* failure of the chunk [3,4]; the three chunks were credited once each
C19_Witness ==
  /\ totalPages = 5
  /\ prev[1] = Ev("request", 3, 4)
  /\ RunCompleted(1)
  /\ CheckpointIs(5, TRUE)
  /\ credited = <<<<1, 2>>, <<3, 4>>, <<5, 5>>>>

\* the run ended on a completed checkpoint: it wrote completed = true, or it
\* found it and returned at line 154
EndedCompleted(p) ==
  pc[p] = "done" /\ exit_code[p] = 0 /\ ~HasFail(p)
  /\ (SavedCompleted(p) \/ (ShortCircuit(completed[p]) /\ trace[p] = <<>>))

\* C20: a run makes at most ceil(totalPages / 2) extraction calls and, once
\* started, ends Completed or Halted; when the extraction service fails
\* finitely often and main() is invoked again and again, the checkpoint
\* eventually says completed = true at the last page, and stays so.
C20_TerminationAndCompletion ==
  /\ [](\A p \in SeqProcs :
          Len(Events(p, "extract")) <= NumChunks(totalPages))
  /\ \A p \in SeqProcs :
       pc[p] = "load" ~>
         (pc[p] = "done" /\ (EndedCompleted(p) \/ (RunHalted(p) /\ exit_code[p] = 0)))
  /\ <>[]CheckpointIs(totalPages, TRUE)

\* C20 witness: every failure the service had to give was spent on a 5-page
\* document, and a later run still completed it
C20_Witness ==
  /\ totalPages = 5 /\ faultBudget = 0
  /\ prev[1].op # "none"
  /\ EndedCompleted(1) /\ SavedCompleted(1)
  /\ CheckpointIs(5, TRUE)

\* no process is inside save_run_log
NoWriter == \A p \in Procs : pc[p] # "save_write"

\* the run has written its windowed artifact (line 176) and has not yet
\* opened it for the upload (line 90)
InUse(p) == pc[p] = "create_file"
ArtifactGone(p) ==
  InUse(p) /\ TempPath(chunk_start[p], chunk_end[p]) \notin tmpFiles

\* the persisted lastProcessedPage is below a value persisted earlier, resp.
\* a run wrote completed = true and the checkpoint now says false
Regressed ==
  NoWriter /\ \E k \in 1..Len(credited) : credited[k][2] > Num(Checkpoint.lpp)
CompletedLost ==
  /\ NoWriter /\ ~Truthy(Checkpoint.completed)
  /\ \E q \in Procs : SavedCompleted(q)

\* the checkpoint value the run believes is persisted: its own last write, or
\* what it loaded
OwnView(p) ==
  IF Has(p, "saved") THEN LastSaved(p).a ELSE Num(last_processed_page[p])

FinallyPcs == {"finally", "finally_break", "finally_exc"}

\* C16: two interleaved runs on the same document are unsafe, and only by
\* interference: an artifact a run still uses disappears only when the other
\* run's finally block removes the file of the same name; the persisted
\* lastProcessedPage decreases only when a run overwrites a value that is not
\* the one it believes persisted (a lost update); a completed checkpoint is
\* overwritten only by a run that loaded it before it was completed; and none
\* of this happens while the second process has never run.  The witness is a
\* reachable state with both a regressed checkpoint and a removed artifact.
C16_UnsafeByInterference ==
  /\ [][\A p \in Procs :
          (/\ InUse(p)
           /\ TempPath(chunk_start[p], chunk_end[p]) \in tmpFiles
           /\ TempPath(chunk_start[p], chunk_end[p]) \notin tmpFiles') =>
            \E q \in Procs \ {p} :
              /\ pc[q] \in FinallyPcs /\ pc'[q] # pc[q]
              /\ TempPath(chunk_start[q], chunk_end[q]) =
                   TempPath(chunk_start[p], chunk_end[p])]_vars
  /\ [][committed' < committed =>
          \E p \in Procs :
            /\ pc[p] = "save_write" /\ pc'[p] = "finally"
            /\ OwnView(p) # committed]_vars
  /\ [][(Truthy(Checkpoint.completed) /\ logFile' # logFile) =>
          \E p \in Procs :
            /\ pc[p] \in {"save_open", "save_write"} /\ pc'[p] # pc[p]
            /\ ~ShortCircuit(completed[p])]_vars
  /\ []((pc[2] = "idle" /\ trace[2] = <<>>) =>
          /\ \A p \in Procs : ~ArtifactGone(p)
          /\ ~Regressed /\ ~CompletedLost)

\* C16 witness: the checkpoint of a 3-page document is below a page that was
\* persisted earlier, and process 1 is about to upload the artifact
\* temp_chunk_3_3.pdf, which the finally block of process 2 has removed
C16_Witness ==
  /\ totalPages = 3
  /\ Regressed
  /\ ArtifactGone(1) /\ chunk_start[1] = 3 /\ chunk_end[1] = 3
  /\ \E i \in 1..Len(trace[2]) : trace[2][i] = Ev("remove", 3, 3)
====
